---- MODULE Spec2Model ----
(***************************************************************************)
(* BiciMAD collector: the collection cycle (BiciMADCollector.collect_data) *)
(* and the two schedulers that drive it: the interval scheduler (main of   *)
(* BiciMAD_Data_Collector.py) and the windowed scheduler (main of          *)
(* BiciMAD_Scheduled_Collector.py).                                        *)
(*                                                                         *)
(* Time is a natural number of clock units.  A station entry of the        *)
(* payload is "ok" (a JSON object, every field read through .get) or "bad" *)
(* (an entry the loop body raises on, e.g. a null entry or a coordinates   *)
(* array with fewer than two elements).  A row of a CSV file is the pair   *)
(* <<cycle, station index>>; the header row is <<0, 0>>.                   *)
(*                                                                         *)
(* The two pure functions of the extraction, normalize_text and the        *)
(* numeric columns of one station record, are operators over bounded       *)
(* inputs; SpecPure applies them to every text and every station object    *)
(* of those inputs.                                                        *)
(*                                                                         *)
(* SpecWindowed is the windowed scheduler alone, with weak fairness of the *)
(* steps of the process, for its termination.                              *)
(***************************************************************************)
EXTENDS Integers, Sequences, FiniteSets, TLC

\* ---------------------------------------------------------------- bounds
Interval == 2
MaxDur == 1
MaxLate == 1
MaxStations == 2
MaxCycles == 3
MaxLen == 3
MaxBases == 2

StartFuture == 1
MaxEnd == StartFuture + 3 * Interval
MaxTime == MaxEnd + MaxDur + MaxLate
EndTimes == {0, StartFuture + Interval, MaxEnd}

VARIABLES
    mode,              \* which scheduler runs: "interval" or "windowed"
    access_token,      \* BICIMAD_ACCESS_TOKEN is set
    pc,                \* position of the single thread of control
    now,               \* the wall clock
    start_time,        \* windowed scheduler: start of the window
    end_time,          \* windowed scheduler: end of the window
    next_run,          \* windowed: next_run; interval: the job's next run
    scheduled,         \* interval scheduler: the periodic job is registered
    collector,         \* a BiciMADCollector instance exists
    collection_stats,  \* counters of the current collector instance
    data,              \* collect_data: the fetched payload
    df,                \* collect_data: the extracted records
    main_csv,          \* content of csv/bicimad_stations_data.csv
    main_csv_exists,   \* csv/bicimad_stations_data.csv exists
    json_written,      \* the running cycle wrote its raw snapshot
    daily_written,     \* the running cycle wrote its per-cycle CSV file
    cycles,            \* cycles triggered by the scheduler so far
    outcome,           \* how the last cycle ended ("none" while it runs)
    errs0,             \* errors counter at the entry of the running cycle
    made0,             \* collections_made at the entry of the running cycle
    files0,            \* total_files at the entry of the running cycle
    uniform_k,         \* k when no history file existed at the start and
                       \* every cycle so far succeeded with k records; 0
                       \* before the first cycle; -1 otherwise
    hist0,             \* main_csv at the entry of the running cycle
    busy,              \* windowed: time spent inside cycles so far
    lateness,          \* windowed: time by which sleeps overran so far
    waited,            \* the wait for the start time was performed
    stopped_at,        \* position at which the process stopped
    interrupted,       \* the process was stopped by KeyboardInterrupt
    reported,          \* show_stats was called
    ppc,               \* position of a single call of a pure function
    station,           \* process_stations_data: the station entry read
    record,            \* process_stations_data: station_data built from it
    warned,            \* process_stations_data: the coordinates warning
    batch,             \* process_stations_data: the list `rows`
    text,              \* normalize_text: the argument
    normalized,        \* normalize_text(text)
    twice              \* normalize_text(normalize_text(text))

vars == <<mode, access_token, pc, now, start_time, end_time, next_run,
          scheduled, collector, collection_stats, data, df, main_csv,
          main_csv_exists, json_written, daily_written, cycles, outcome,
          errs0, made0, files0, uniform_k, hist0, busy, lateness, waited,
          stopped_at, interrupted, reported, ppc, station, record, warned,
          batch, text, normalized, twice>>

\* ------------------------------------------------------------ data values
Header == <<0, 0>>

NoneData == [kind |-> "None", entries |-> <<>>]
EmptyPayload == [kind |-> "empty", entries |-> <<>>]
NoKeyPayload == [kind |-> "nokey", entries |-> <<>>]

EntryLists == UNION {[1..n -> {"ok", "bad"}] : n \in 0..MaxStations}

Payloads == {EmptyPayload, NoKeyPayload}
            \cup {[kind |-> "list", entries |-> e] : e \in EntryLists}

NoneDf == [none |-> TRUE, rows |-> <<>>]

CyclePcs == {"fetch", "check", "snapshot", "extract", "append", "daily"}

IsPrefix(s, t) == /\ Len(s) <= Len(t)
                  /\ \A i \in 1..Len(s) : s[i] = t[i]

Prefixes(s) == {SubSeq(s, 1, k) : k \in 0..Len(s)}

\* ----------------------------------------------- BiciMADCollector.__init__
InitStats == [collections_made |-> 0, total_files |-> 0, errors |-> 0]

\* collection_stats['errors'] += 1
CountError_twice(st) == [st EXCEPT !.errors = @ + 2]
CountError(st) == [st EXCEPT !.errors = @ + 1]

\* collection_stats['total_files'] += 1
CountFile_none(st) == st
CountFile(st) == [st EXCEPT !.total_files = @ + 1]

\* collection_stats['collections_made'] += 1
CountCollection_twice(st) == [st EXCEPT !.collections_made = @ + 2]
CountCollection(st) == [st EXCEPT !.collections_made = @ + 1]

\* `if data:` a None result and an empty JSON object are both falsy
Truthy(d) == d.kind \in {"nokey", "list"}

\* ------------------------------------------------- process_stations_data
\* the for loop over data['data']: one record per entry, in order; an entry
\* the body raises on ends the loop with the exception
RECURSIVE StationLoop(_, _, _, _)
StationLoop(entries, i, rows, ts) ==
    IF i > Len(entries) THEN [exc |-> FALSE, rows |-> rows]
    ELSE IF entries[i] = "bad" THEN [exc |-> TRUE, rows |-> rows]
    ELSE StationLoop(entries, i + 1, Append(rows, <<ts, i>>), ts)

process_stations_data(d, ts) ==
    IF ~Truthy(d) \/ d.kind = "nokey"
    THEN [exc |-> FALSE, none |-> TRUE, rows |-> <<>>]
    ELSE LET r == StationLoop(d.entries, 1, <<>>, ts)
         IN  IF r.exc THEN [exc |-> TRUE, none |-> TRUE, rows |-> <<>>]
             ELSE IF r.rows = <<>>
                  THEN [exc |-> FALSE, none |-> TRUE, rows |-> <<>>]
                  ELSE [exc |-> FALSE, none |-> FALSE, rows |-> r.rows]

\* ------------------------------------------------------------ update_csv
\* the lines df.to_csv writes to the main CSV: with the header when the file
\* is created, without it when the file exists
MainCsvLines_withHeader(exists, rows) == <<Header>> \o rows
MainCsvLines(exists, rows) == IF exists THEN rows ELSE <<Header>> \o rows

\* mode='a' when the file exists, a new file otherwise
WriteMainCsv_overwrite(csv, lines) == lines
WriteMainCsv(csv, lines) == csv \o lines

\* ------------------------------------------------------------ scheduling
\* windowed: `while next_run <= end_time`
LoopCond_late(nr, et) == nr <= et + Interval
LoopCond(nr, et) == nr <= et

\* windowed: `if next_run > end_time: break`
BreakCond_strict(nr, et) == nr >= et
BreakCond(nr, et) == nr > et

\* next_run = now + interval
NextRunAfter_absolute(t, iv) == iv
NextRunAfter_noInterval(t, iv) == t
NextRunAfter(t, iv) == t + iv

\* schedule.every(n).minutes.do(self.collect_data): the job is the bound
\* method of the one collector main created, so every run finds the
\* statistics the previous run left
JobCollectorStats_fresh(st) == InitStats
JobCollectorStats(st) == st

\* where control goes when an exception reaches `except Exception` of
\* collect_data: the handler returns normally to the caller
AfterCaught_propagates == "done"
AfterCaught_hangs == "hang"
AfterCaught == "ret"

\* --------------------------------------------------------- normalize_text
\* Characters are named by what unicodedata does with them:
\*   "n", "a"   ASCII letters            "."  "o"  "1"  "2"   ASCII
\*   "ORD"      U+00BA, the ordinal indicator; NFKD gives "o"
\*   "NTILDE"   U+00F1; NFKD gives "n" followed by the combining tilde
\*   "COMB"     a combining mark (U+0303)
\*   "EURO"     U+20AC, not ASCII, no decomposition
\*   "HALF"     U+00BD; NFKD gives "1", U+2044 (fraction slash), "2"
\*   "FRSL"     U+2044, not ASCII, no decomposition
InputChars == {"n", "a", "ORD", "NTILDE", "COMB", "EURO", "HALF"}
Ascii == {"n", "a", ".", "o", "1", "2"}

Texts == [none : {TRUE}, s : {<<>>}]
         \cup [none : {FALSE},
               s : UNION {[1..n -> InputChars] : n \in 0..MaxLen}]

\* text.replace("nº", "n."): left to right, occurrences do not overlap
RECURSIVE ReplaceNOrd(_)
ReplaceNOrd(s) ==
    IF Len(s) = 0 THEN <<>>
    ELSE IF Len(s) >= 2 /\ s[1] = "n" /\ s[2] = "ORD"
         THEN <<"n", ".">> \o ReplaceNOrd(SubSeq(s, 3, Len(s)))
         ELSE <<s[1]>> \o ReplaceNOrd(Tail(s))

\* .replace("º", ".")
ReplaceOrd(s) == [i \in 1..Len(s) |-> IF s[i] = "ORD" THEN "." ELSE s[i]]

\* the compatibility decomposition of one character
Decompose(c) ==
    CASE c = "ORD" -> <<"o">>
      [] c = "NTILDE" -> <<"n", "COMB">>
      [] c = "HALF" -> <<"1", "FRSL", "2">>
      [] OTHER -> <<c>>

\* unicodedata.normalize('NFKD', text)
RECURSIVE NFKD(_)
NFKD(s) == IF Len(s) = 0 THEN <<>> ELSE Decompose(s[1]) \o NFKD(Tail(s))

\* unicodedata.combining(c)
Combining(c) == c = "COMB"

\* ''.join([c for c in text if not unicodedata.combining(c)])
DropCombining(s) == SelectSeq(s, LAMBDA c : ~Combining(c))

\* re.sub(r'[^\x00-\x7F]+', '', text), and two ways to get it wrong: no
\* substitution at all, and a substitution of the first run only
RECURSIVE StripFrom(_, _)
StripFrom(s, inRun) ==
    IF Len(s) = 0 THEN <<>>
    ELSE IF s[1] \in Ascii
         THEN IF inRun THEN s ELSE <<s[1]>> \o StripFrom(Tail(s), FALSE)
         ELSE StripFrom(Tail(s), TRUE)

StripNonAscii_none(s) == s
StripNonAscii_firstRun(s) == StripFrom(s, FALSE)
StripNonAscii(s) == SelectSeq(s, LAMBDA c : c \in Ascii)

normalize_text(t) ==
    IF t.none \/ t.s = <<>> THEN <<>>
    ELSE StripNonAscii(DropCombining(NFKD(ReplaceOrd(ReplaceNOrd(t.s)))))

\* ----------------------------- process_stations_data: one station entry
\* A numeric field of a station is a natural number or Absent (the key is
\* not in the JSON object).
Absent == 0 - 1
FieldVals == {Absent} \cup 0..MaxBases
CoordVals == {Absent, 0, 1}

\* station['light']: the key is absent, its value is not a dict, or it is a
\* dict with the keys availability and free
Lights == [kind : {"absent", "other"}, availability : {Absent},
           free : {Absent}]
          \cup [kind : {"dict"}, availability : FieldVals, free : FieldVals]

\* station['geometry']['coordinates'] is absent or the pair [lon, lat]
Geometries == [present : {FALSE}, lon : {0}, lat : {0}]
              \cup [present : {TRUE}, lon : {0, 1}, lat : {0, 1}]

Stations == [dock_bikes : FieldVals, free_bases : FieldVals,
             total_bases : FieldVals, light : Lights,
             geometry : Geometries, longitude : CoordVals,
             latitude : CoordVals]

\* dict.get(key, 0)
Get(v) == IF v = Absent THEN 0 ELSE v

\* lines 221-227: geometry coordinates first, the flat field when the
\* coordinate is 0 and the flat field is present
Longitude(st) ==
    LET lon == IF st.geometry.present THEN st.geometry.lon ELSE 0
    IN  IF lon = 0 /\ st.longitude # Absent THEN st.longitude ELSE lon

Latitude(st) ==
    LET lat == IF st.geometry.present THEN st.geometry.lat ELSE 0
    IN  IF lat = 0 /\ st.latitude # Absent THEN st.latitude ELSE lat

\* lines 230, 235-236
Availability(st) ==
    LET a == Get(st.dock_bikes)
    IN  IF a = 0 /\ st.light.kind = "dict"
        THEN Get(st.light.availability) ELSE a

\* lines 231, 237-238
FreeBases(st) ==
    LET f == Get(st.free_bases)
    IN  IF f = 0 /\ st.light.kind = "dict" THEN Get(st.light.free) ELSE f

\* lines 232, 239-240, and the fallback taken from the fields before their
\* own fallback
TotalBases_raw(st) ==
    LET t == Get(st.total_bases)
    IN  IF t = 0 THEN Get(st.dock_bikes) + Get(st.free_bases) ELSE t

TotalBases(st) ==
    LET t == Get(st.total_bases)
    IN  IF t = 0 THEN Availability(st) + FreeBases(st) ELSE t

\* line 251, and the sum taken before the fallback
ActiveBases_raw(st) == Get(st.dock_bikes) + Get(st.free_bases)
ActiveBases(st) == Availability(st) + FreeBases(st)

\* lines 243-256: the numeric columns of station_data
StationData(st) ==
    [longitude |-> Longitude(st),
     latitude |-> Latitude(st),
     total_bases |-> TotalBases(st),
     active_bases |-> ActiveBases(st),
     available_bikes |-> Availability(st),
     free_bases |-> FreeBases(st)]

\* lines 259-260
CoordWarning(st) == Longitude(st) = 0 \/ Latitude(st) = 0

\* line 262: rows.append(station_data), flagged or not; and a loop that
\* leaves a flagged record out
AppendRow_dropFlagged(rs, rec, flagged) ==
    IF flagged THEN rs ELSE Append(rs, rec)

AppendRow(rs, rec, flagged) == Append(rs, rec)

NoStation == [dock_bikes |-> Absent, free_bases |-> Absent,
              total_bases |-> Absent,
              light |-> [kind |-> "absent", availability |-> Absent,
                         free |-> Absent],
              geometry |-> [present |-> FALSE, lon |-> 0, lat |-> 0],
              longitude |-> Absent, latitude |-> Absent]

NoRecord == [longitude |-> 0, latitude |-> 0, total_bases |-> 0,
             active_bases |-> 0, available_bikes |-> 0, free_bases |-> 0]

NoText == [none |-> TRUE, s |-> <<>>]

\* no pure function is being followed
PureOff ==
    /\ ppc = "off"
    /\ station = NoStation
    /\ record = NoRecord
    /\ warned = FALSE
    /\ batch = <<>>
    /\ text = NoText
    /\ normalized = <<>>
    /\ twice = <<>>

Init ==
    /\ mode \in {"interval", "windowed"}
    /\ access_token \in BOOLEAN
    /\ now = 0
    /\ start_time \in (IF mode = "windowed" THEN {0, StartFuture} ELSE {0})
    /\ end_time \in (IF mode = "windowed" THEN EndTimes ELSE {0})
    /\ pc = (IF mode = "interval" THEN "i_init" ELSE "w_start")
    /\ next_run = 0
    /\ scheduled = FALSE
    /\ collector = FALSE
    /\ collection_stats = InitStats
    /\ data = NoneData
    /\ df = NoneDf
    /\ \E pre \in BOOLEAN :
          /\ main_csv_exists = pre
          /\ main_csv = (IF pre THEN <<Header, <<0, 1>>>> ELSE <<>>)
    /\ json_written = FALSE
    /\ daily_written = FALSE
    /\ cycles = 0
    /\ outcome = "none"
    /\ errs0 = 0
    /\ made0 = 0
    /\ files0 = 0
    /\ uniform_k = (IF main_csv_exists THEN 0 - 1 ELSE 0)
    /\ hist0 = main_csv
    /\ busy = 0
    /\ lateness = 0
    /\ waited = FALSE
    /\ stopped_at = "none"
    /\ interrupted = FALSE
    /\ reported = FALSE
    /\ PureOff

\* ------------------------------------------------------------ frames
EntryVars == <<errs0, made0, files0, uniform_k, hist0>>
PureVars == <<ppc, station, record, warned, batch, text, normalized, twice>>
SchedVars == <<mode, access_token, start_time, end_time, PureVars>>
FileVars == <<main_csv, main_csv_exists>>
FlagVars == <<json_written, daily_written>>
StopVars == <<stopped_at, interrupted, reported>>

\* entry of collect_data with collector statistics st
EnterCycle(st) ==
    /\ pc' = "fetch"
    /\ collection_stats' = st
    /\ data' = NoneData
    /\ df' = NoneDf
    /\ outcome' = "none"
    /\ errs0' = st.errors
    /\ made0' = st.collections_made
    /\ files0' = st.total_files
    /\ hist0' = main_csv
    /\ UNCHANGED uniform_k
    /\ json_written' = FALSE
    /\ daily_written' = FALSE

\* bookkeeping of uniform_k when a cycle that ended with outcome o and n
\* extracted records is over
UniformAfter(u, o, n) ==
    IF u >= 0 /\ o = "ok" /\ (u = 0 \/ u = n) THEN n ELSE 0 - 1

\* collect_data has returned: its locals are gone, the cycle is over
LeaveCycle ==
    /\ data' = NoneData
    /\ df' = NoneDf
    /\ outcome' = "none"
    /\ errs0' = collection_stats.errors
    /\ made0' = collection_stats.collections_made
    /\ files0' = collection_stats.total_files
    /\ uniform_k' = UniformAfter(uniform_k, outcome, Len(df.rows))
    /\ hist0' = main_csv
    /\ json_written' = FALSE
    /\ daily_written' = FALSE

\* `except Exception` of collect_data
Caught(label) ==
    /\ collection_stats' = CountError(collection_stats)
    /\ outcome' = label
    /\ pc' = AfterCaught
    /\ stopped_at' = IF AfterCaught = "done" THEN pc ELSE stopped_at

\* ------------------------------------------------------------ collect_data
GetStationInfo ==
    /\ pc = "fetch"
    /\ \E d \in 0..MaxDur :
          /\ now + d <= MaxTime
          /\ now' = now + d
          /\ busy' = (IF mode = "windowed" THEN busy + d ELSE busy)
    /\ \/ /\ data' = NoneData
          /\ collection_stats' = CountError(collection_stats)
       \/ /\ data' \in Payloads
          /\ UNCHANGED collection_stats
    /\ pc' = "check"
    /\ UNCHANGED lateness
    /\ UNCHANGED <<SchedVars, FileVars, FlagVars, StopVars, next_run,
                   scheduled, collector, df, cycles, outcome, EntryVars,
                   waited>>

CheckData ==
    /\ pc = "check"
    /\ IF Truthy(data)
       THEN /\ pc' = "snapshot"
            /\ UNCHANGED <<collection_stats, outcome>>
       ELSE /\ collection_stats' = CountError(collection_stats)
            /\ outcome' = (IF data.kind = "None" THEN "fetch_failed"
                           ELSE "empty_payload")
            /\ pc' = "ret"
    /\ UNCHANGED <<SchedVars, FileVars, FlagVars, StopVars, now, next_run,
                   scheduled, collector, data, df, cycles, EntryVars, busy,
                   lateness, waited>>

SaveJsonData ==
    /\ pc = "snapshot"
    /\ \/ /\ json_written' = TRUE
          /\ collection_stats' = CountFile(collection_stats)
          /\ pc' = "extract"
          /\ UNCHANGED <<outcome, stopped_at>>
       \/ /\ Caught("snapshot_exc")
          /\ UNCHANGED json_written
    /\ UNCHANGED <<SchedVars, main_csv, main_csv_exists, daily_written,
                   interrupted, reported, now, next_run, scheduled, collector,
                   data, df, cycles, EntryVars, busy, lateness, waited>>

ProcessStationsData ==
    /\ pc = "extract"
    /\ LET r == process_stations_data(data, cycles)
       IN  IF r.exc
           THEN /\ Caught("extract_exc")
                /\ UNCHANGED df
           ELSE IF r.none
           THEN /\ df' = NoneDf
                /\ collection_stats' = CountError(collection_stats)
                /\ outcome' = "no_records"
                /\ pc' = "ret"
                /\ UNCHANGED stopped_at
           ELSE /\ df' = [none |-> FALSE, rows |-> r.rows]
                /\ pc' = "append"
                /\ UNCHANGED <<collection_stats, outcome, stopped_at>>
    /\ UNCHANGED <<SchedVars, FileVars, FlagVars, interrupted, reported, now,
                   next_run, scheduled, collector, data, cycles, EntryVars,
                   busy, lateness, waited>>

UpdateCsvMain ==
    /\ pc = "append"
    /\ LET lines == MainCsvLines(main_csv_exists, df.rows)
       IN  \/ /\ main_csv' = WriteMainCsv(main_csv, lines)
              /\ main_csv_exists' = TRUE
              /\ pc' = "daily"
              /\ UNCHANGED <<collection_stats, outcome, stopped_at>>
           \/ /\ \E part \in Prefixes(lines) \ {lines} :
                    main_csv' = WriteMainCsv(main_csv, part)
              /\ main_csv_exists' \in {main_csv_exists, TRUE}
              /\ (main_csv' # main_csv => main_csv_exists')
              /\ Caught("append_exc")
    /\ UNCHANGED <<SchedVars, json_written, daily_written, interrupted,
                   reported, now, next_run, scheduled, collector, data, df,
                   cycles, EntryVars, busy, lateness, waited>>

UpdateCsvDaily ==
    /\ pc = "daily"
    /\ \/ /\ daily_written' = TRUE
          /\ collection_stats' = CountCollection(collection_stats)
          /\ outcome' = "ok"
          /\ pc' = "ret"
          /\ UNCHANGED stopped_at
       \/ /\ Caught("daily_exc")
          /\ UNCHANGED daily_written
    /\ UNCHANGED <<SchedVars, main_csv, main_csv_exists, json_written,
                   interrupted, reported, now, next_run, scheduled, collector,
                   data, df, cycles, EntryVars, busy, lateness, waited>>

\* ------------------------------------- main of BiciMAD_Data_Collector.py
IntervalStart ==
    /\ mode = "interval"
    /\ pc = "i_init"
    /\ IF access_token
       THEN /\ collector' = TRUE
            /\ cycles' = cycles + 1
            /\ EnterCycle(InitStats)
            /\ UNCHANGED stopped_at
       ELSE /\ pc' = "done"
            /\ stopped_at' = pc
            /\ UNCHANGED <<collector, cycles, collection_stats, data, df,
                           outcome, EntryVars, FlagVars>>
    /\ UNCHANGED <<SchedVars, FileVars, interrupted, reported, now, next_run,
                   scheduled, busy, lateness, waited>>

ScheduleCollection ==
    /\ mode = "interval"
    /\ pc = "ret"
    /\ ~scheduled
    /\ scheduled' = TRUE
    /\ next_run' = NextRunAfter(now, Interval)
    /\ pc' = "i_loop"
    /\ LeaveCycle
    /\ UNCHANGED <<SchedVars, FileVars, StopVars, now, collector,
                   collection_stats, cycles, busy, lateness, waited>>

RunPending ==
    /\ mode = "interval"
    /\ pc = "i_loop"
    /\ now >= next_run
    /\ cycles < MaxCycles
    /\ cycles' = cycles + 1
    /\ EnterCycle(JobCollectorStats(collection_stats))
    /\ UNCHANGED <<SchedVars, FileVars, StopVars, now, next_run, scheduled,
                   collector, busy, lateness, waited>>

JobDone ==
    /\ mode = "interval"
    /\ pc = "ret"
    /\ scheduled
    /\ next_run' = NextRunAfter(now, Interval)
    /\ pc' = "i_sleep"
    /\ LeaveCycle
    /\ UNCHANGED <<SchedVars, FileVars, StopVars, now, scheduled, collector,
                   collection_stats, cycles, busy, lateness, waited>>

Idle ==
    /\ mode = "interval"
    /\ pc = "i_loop"
    /\ now < next_run
    /\ pc' = "i_sleep"
    /\ UNCHANGED <<SchedVars, FileVars, FlagVars, StopVars, now, next_run,
                   scheduled, collector, collection_stats, data, df, cycles,
                   outcome, EntryVars, busy, lateness, waited>>

Sleep1 ==
    /\ mode = "interval"
    /\ pc = "i_sleep"
    /\ now < MaxTime
    /\ now' = now + 1
    /\ pc' = "i_loop"
    /\ UNCHANGED <<SchedVars, FileVars, FlagVars, StopVars, next_run,
                   scheduled, collector, collection_stats, data, df, cycles,
                   outcome, EntryVars, busy, lateness, waited>>

\* ---------------------------------- main of BiciMAD_Scheduled_Collector.py
WaitForStart ==
    /\ mode = "windowed"
    /\ pc = "w_start"
    /\ IF now < start_time
       THEN \E late \in 0..MaxLate :
               /\ now' = start_time + late
               /\ lateness' = lateness + late
               /\ waited' = TRUE
       ELSE UNCHANGED <<now, lateness, waited>>
    /\ next_run' = now'
    /\ pc' = "w_check"
    /\ UNCHANGED busy
    /\ UNCHANGED <<SchedVars, FileVars, FlagVars, StopVars, scheduled,
                   collector, collection_stats, data, df, cycles, outcome,
                   EntryVars>>

LoopCheck ==
    /\ mode = "windowed"
    /\ pc = "w_check"
    /\ IF LoopCond(next_run, end_time)
       THEN /\ pc' = "w_new"
            /\ cycles' = cycles + 1
            /\ UNCHANGED stopped_at
       ELSE /\ pc' = "done"
            /\ stopped_at' = pc
            /\ UNCHANGED cycles
    /\ UNCHANGED <<SchedVars, FileVars, FlagVars, interrupted, reported, now,
                   next_run, scheduled, collector, collection_stats, data, df,
                   outcome, EntryVars, busy, lateness, waited>>

NewCollector ==
    /\ mode = "windowed"
    /\ pc = "w_new"
    /\ IF access_token
       THEN /\ collector' = TRUE
            /\ EnterCycle(InitStats)
       ELSE /\ pc' = "ret"
            /\ outcome' = "init_exc"
            /\ UNCHANGED <<collector, collection_stats, data, df, EntryVars,
                           FlagVars>>
    /\ UNCHANGED <<SchedVars, FileVars, StopVars, now, next_run, scheduled,
                   cycles, busy, lateness, waited>>

NextRun ==
    /\ mode = "windowed"
    /\ pc = "ret"
    /\ LET nr == NextRunAfter(now, Interval)
       IN  /\ next_run' = nr
           /\ IF BreakCond(nr, end_time)
              THEN /\ pc' = "done"
                   /\ stopped_at' = pc
                   /\ UNCHANGED <<now, lateness>>
              ELSE /\ \E late \in 0..MaxLate :
                         /\ now' = nr + late
                         /\ lateness' = lateness + late
                   /\ pc' = "w_check"
                   /\ UNCHANGED stopped_at
    /\ LeaveCycle
    /\ UNCHANGED busy
    /\ UNCHANGED <<SchedVars, FileVars, interrupted, reported, scheduled,
                   collector, collection_stats, cycles, waited>>

\* ------------------------------------------------------ KeyboardInterrupt
Interrupt ==
    /\ pc # "done"
    /\ pc' = "done"
    /\ stopped_at' = pc
    /\ interrupted' = TRUE
    /\ reported' = (mode = "interval" /\ scheduled)
    /\ UNCHANGED <<SchedVars, FileVars, FlagVars, now, next_run, scheduled,
                   collector, collection_stats, data, df, cycles, outcome,
                   EntryVars, busy, lateness, waited>>

Next ==
    \/ GetStationInfo
    \/ CheckData
    \/ SaveJsonData
    \/ ProcessStationsData
    \/ UpdateCsvMain
    \/ UpdateCsvDaily
    \/ IntervalStart
    \/ ScheduleCollection
    \/ RunPending
    \/ JobDone
    \/ Idle
    \/ Sleep1
    \/ WaitForStart
    \/ LoopCheck
    \/ NewCollector
    \/ NextRun
    \/ Interrupt

Spec == Init /\ [][Next]_vars

\* ------------------------------------------ the windowed scheduler alone
\* a step of the windowed process itself: the clock advances through its
\* sleeps and every call it makes returns
WindowedStep ==
    \/ GetStationInfo
    \/ CheckData
    \/ SaveJsonData
    \/ ProcessStationsData
    \/ UpdateCsvMain
    \/ UpdateCsvDaily
    \/ WaitForStart
    \/ LoopCheck
    \/ NewCollector
    \/ NextRun

InitWindowed == Init /\ mode = "windowed"

NextWindowed ==
    \/ WindowedStep
    \/ Interrupt

SpecWindowed ==
    InitWindowed /\ [][NextWindowed]_vars /\ WF_vars(WindowedStep)

\* ------------------------------------------------ the pure functions alone
\* the schedulers and the cycle stand still while one call is followed
MainVars == <<mode, access_token, pc, now, start_time, end_time, next_run,
              scheduled, collector, collection_stats, data, df, main_csv,
              main_csv_exists, json_written, daily_written, cycles, outcome,
              errs0, made0, files0, uniform_k, hist0, busy, lateness,
              waited, stopped_at, interrupted, reported>>

MainOff ==
    /\ mode = "interval"
    /\ access_token = TRUE
    /\ pc = "done"
    /\ now = 0
    /\ start_time = 0
    /\ end_time = 0
    /\ next_run = 0
    /\ scheduled = FALSE
    /\ collector = FALSE
    /\ collection_stats = InitStats
    /\ data = NoneData
    /\ df = NoneDf
    /\ main_csv = <<>>
    /\ main_csv_exists = FALSE
    /\ json_written = FALSE
    /\ daily_written = FALSE
    /\ cycles = 0
    /\ outcome = "none"
    /\ errs0 = 0
    /\ made0 = 0
    /\ files0 = 0
    /\ uniform_k = 0
    /\ hist0 = <<>>
    /\ busy = 0
    /\ lateness = 0
    /\ waited = FALSE
    /\ stopped_at = "none"
    /\ interrupted = FALSE
    /\ reported = FALSE

InitPure ==
    /\ MainOff
    /\ record = NoRecord
    /\ warned = FALSE
    /\ batch = <<>>
    /\ normalized = <<>>
    /\ twice = <<>>
    /\ \/ /\ ppc = "station"
          /\ station \in Stations
          /\ text = NoText
       \/ /\ ppc = "text"
          /\ station = NoStation
          /\ text \in Texts

\* the body of the for loop of process_stations_data on one entry
ExtractStation ==
    /\ ppc = "station"
    /\ record' = StationData(station)
    /\ warned' = CoordWarning(station)
    /\ batch' = AppendRow(batch, record', warned')
    /\ ppc' = "extracted"
    /\ UNCHANGED <<MainVars, station, text, normalized, twice>>

\* normalize_text(text)
NormalizeText ==
    /\ ppc = "text"
    /\ normalized' = normalize_text(text)
    /\ ppc' = "normalized"
    /\ UNCHANGED <<MainVars, station, record, warned, batch, text, twice>>

\* normalize_text of the result
NormalizeAgain ==
    /\ ppc = "normalized"
    /\ twice' = normalize_text([none |-> FALSE, s |-> normalized])
    /\ ppc' = "twice"
    /\ UNCHANGED <<MainVars, station, record, warned, batch, text,
                   normalized>>

NextPure ==
    \/ ExtractStation
    \/ NormalizeText
    \/ NormalizeAgain

SpecPure == InitPure /\ [][NextPure]_vars

TypeOK ==
    /\ pc \in CyclePcs \cup {"i_init", "i_loop", "i_sleep", "w_start",
                             "w_check", "w_new", "ret", "done"}
    /\ now \in 0..MaxTime
    /\ cycles \in Nat
    /\ \A k \in DOMAIN collection_stats : collection_stats[k] \in Nat

\* ------------------------------------------------------------ properties
\* collect_data has just returned to the scheduler
Returned == pc = "ret"

\* no counter of the statistics decreases in the step
StatsGrow ==
    \A k \in DOMAIN collection_stats :
        collection_stats'[k] >= collection_stats[k]

NumOk(entries) == Cardinality({i \in 1..Len(entries) : entries[i] = "ok"})
NumBad(entries) == Cardinality({i \in 1..Len(entries) : entries[i] = "bad"})

\* the windowed configuration of the cycle-count property: the start is in
\* the future and the end is three intervals after it
ThreeIntervalWindow ==
    /\ mode = "windowed"
    /\ start_time > 0
    /\ end_time = start_time + 3 * Interval

\* the windowed scheduler ran to its end without an interrupt
WindowFinished == pc = "done" /\ ~interrupted

\* C1: a cycle whose fetch hits a transport/HTTP exception leaves the
\* cumulative history as it was before the cycle and raises the errors
\* counter by exactly 1.
C1_FetchFailureOneError ==
    (Returned /\ outcome = "fetch_failed")
        => (main_csv = hist0 /\ collection_stats.errors = errs0 + 1)

\* C2: the cumulative history is append-only: in every step of every cycle,
\* successful or failed, the content of the history file before the step is
\* a prefix of its content after the step.
C2_AppendOnly == [][IsPrefix(main_csv, main_csv')]_vars

\* a successful cycle has appended its rows behind an existing history
C2_Witness ==
    /\ Returned
    /\ outcome = "ok"
    /\ Len(hist0) >= 2
    /\ Len(main_csv) > Len(hist0)

\* C3: when the fetch succeeds and the snapshot write fails, the same cycle
\* still extracts the records and appends them to the history.
C3_SnapshotIndependent ==
    (/\ Returned
     /\ data.kind = "list"
     /\ NumOk(data.entries) >= 1
     /\ NumBad(data.entries) = 0
     /\ ~json_written)
        => (~df.none /\ main_csv # hist0)

\* C4: a payload with v >= 1 well-formed entries and one malformed entry
\* yields exactly v records and the cycle is not counted as a failure.
C4_EntryIsolation ==
    (/\ Returned
     /\ json_written
     /\ data.kind = "list"
     /\ NumOk(data.entries) >= 1
     /\ NumBad(data.entries) = 1)
        => (/\ Len(df.rows) = NumOk(data.entries)
            /\ collection_stats.errors = errs0)

\* C5 as stated: with the start in the future and the end three intervals
\* after it, the windowed scheduler (every sleep ending on time) triggers
\* exactly 4 cycles whatever the cycles' duration.
C5_ExactlyFourCycles ==
    (ThreeIntervalWindow /\ WindowFinished /\ access_token /\ lateness = 0)
        => cycles = 4

\* C5: with the start in the future and the end three intervals after it,
\* the windowed scheduler triggers at most 4 cycles, and exactly 4 when no
\* cycle and no wake-up took any time.
C5_AtMostFourCycles ==
    (ThreeIntervalWindow /\ WindowFinished)
        => (cycles <= 4 /\ (busy + lateness = 0 => cycles = 4))

\* the window ended after four cycles that took no time
C5_Witness ==
    /\ ThreeIntervalWindow
    /\ WindowFinished
    /\ access_token
    /\ busy = 0
    /\ lateness = 0
    /\ cycles = 4

\* C6: the windowed scheduler starts no cycle whose trigger time next_run is
\* later than end_time; when the trigger time computed after a cycle exceeds
\* end_time it stops without that cycle, and when the clock is past end_time
\* after the start wait it stops without any cycle.
C6_EndBound ==
    [][mode = "windowed" =>
        /\ (cycles' > cycles => next_run <= end_time)
        /\ (pc' \in CyclePcs \cup {"w_new"} => next_run' <= end_time)
        /\ ((pc = "ret" /\ next_run' > end_time)
                => (pc' = "done" /\ cycles' = cycles))
        /\ ((pc = "w_check" /\ next_run > end_time)
                => (pc' = "done" /\ cycles' = cycles))]_vars

\* the trigger computed after a cycle exceeded end_time and the scheduler
\* stopped
C6_Witness ==
    /\ mode = "windowed"
    /\ access_token
    /\ WindowFinished
    /\ stopped_at = "ret"
    /\ cycles >= 2
    /\ next_run > end_time

\* C7: whatever ends a cycle, the cycle returns to the scheduler; a cycle
\* that failed has raised the errors counter, and the scheduler goes on from
\* a failed cycle as from a successful one: the interval scheduler back to
\* its loop, the windowed scheduler to its next trigger unless that trigger
\* is past end_time.
C7_FailureIsolated ==
    [][~interrupted' =>
        /\ (pc \in CyclePcs /\ pc' \notin CyclePcs)
              => /\ pc' = "ret"
                 /\ outcome' # "ok" => collection_stats'.errors > errs0
        /\ (pc = "ret" /\ mode = "interval")
              => pc' \in {"i_loop", "i_sleep"}
        /\ (pc = "ret" /\ mode = "windowed")
              => (pc' = "w_check" \/ next_run' > end_time)]_vars

\* the interval scheduler has triggered a cycle after a failed one
C7_Witness ==
    /\ mode = "interval"
    /\ pc = "fetch"
    /\ cycles >= 2
    /\ collection_stats.errors >= 1
    /\ collection_stats.collections_made = 0

\* C8 as stated: in both scheduler modes a cycle starts from the counters
\* the previous cycle left, and no counter is ever reset.
C8_NeverReset ==
    [][/\ pc' = "fetch" => collection_stats' = collection_stats
       /\ StatsGrow]_vars

\* C8: in interval mode a cycle starts from the counters the previous cycle
\* left and no counter ever decreases; in windowed mode every cycle starts
\* with a new collector whose counters are all zero, and no counter
\* decreases within a cycle.
C8_ResetPerInstance ==
    [][/\ mode = "interval"
          => /\ pc' = "fetch" => collection_stats' = collection_stats
             /\ StatsGrow
       /\ mode = "windowed"
          => /\ pc' = "fetch"
                => \A k \in DOMAIN collection_stats : collection_stats'[k] = 0
             /\ pc' # "fetch" => StatsGrow]_vars

\* the interval scheduler's third cycle starts with the counts of a
\* successful and of a failed earlier cycle
C8_Witness ==
    /\ mode = "interval"
    /\ pc = "fetch"
    /\ cycles >= 3
    /\ collection_stats.collections_made >= 1
    /\ collection_stats.errors >= 1

\* C9: an interrupt never abandons a cycle part-way: the process does not
\* stop from a position inside collect_data.
C9_CycleFinishes == pc = "done" => stopped_at \notin CyclePcs

\* C10: with the access token absent the process stops before any wait for
\* the start time and before any cycle is triggered or scheduled.
C10_MissingTokenFatal ==
    ~access_token
        => /\ ~waited
           /\ cycles = 0
           /\ ~scheduled

\* no cycle is in progress and the bookkeeping of the last one is done
BetweenCycles ==
    \/ pc \in {"i_loop", "i_sleep", "w_check"}
    \/ pc = "done" /\ stopped_at \in {"i_loop", "i_sleep", "w_check"}
    \/ pc = "done" /\ stopped_at = "ret" /\ ~interrupted

\* one header row, then the k rows of each of n cycles in cycle order
ExpectedHistory(n, k) ==
    [j \in 1..(1 + n * k) |->
        IF j = 1 THEN Header
        ELSE <<((j - 2) \div k) + 1, ((j - 2) % k) + 1>>]

\* C11: starting from no history file, after N successful cycles of k >= 1
\* records each the history file holds one header row followed by the N*k
\* data rows, grouped by cycle in the order the cycles ran.
C11_HistorySize ==
    (BetweenCycles /\ uniform_k >= 1)
        => main_csv = ExpectedHistory(cycles, uniform_k)

\* three successful cycles of two records each
C11_Witness ==
    /\ BetweenCycles
    /\ uniform_k = 2
    /\ cycles = 3
    /\ Len(main_csv) = 7

\* C12: every extracted record has total_bases >= active_bases, whatever the
\* source total_bases and the origin of the availability and free bases.
C12_TotalAtLeastActive ==
    ppc = "extracted" => record.total_bases >= record.active_bases

\* C13: every extracted record has active_bases = available_bikes +
\* free_bases, both taken after their fallback to light.
C13_ActiveIsSum ==
    ppc = "extracted"
        => record.active_bases = record.available_bikes + record.free_bases

\* availability and free bases both came from light
C13_Witness ==
    /\ ppc = "extracted"
    /\ Get(station.dock_bikes) = 0
    /\ Get(station.free_bases) = 0
    /\ record.available_bikes >= 1
    /\ record.free_bases >= 1
    /\ record.active_bases >= 2

\* C14: a station whose total_bases is missing or zero gives a record whose
\* total_bases equals its active_bases.
C14_TotalFallsBackToActive ==
    (ppc = "extracted" /\ Get(station.total_bases) = 0)
        => record.total_bases = record.active_bases

\* total_bases is missing and the availability came from light
C14_Witness ==
    /\ ppc = "extracted"
    /\ station.total_bases = Absent
    /\ Get(station.dock_bikes) = 0
    /\ record.available_bikes >= 1
    /\ record.total_bases >= 2

\* C15: normalize_text(normalize_text(s)) = normalize_text(s).
C15_Idempotent == ppc = "twice" => twice = normalized

\* a text that normalisation changed without emptying it, normalised twice
C15_Witness ==
    /\ ppc = "twice"
    /\ normalized # <<>>
    /\ normalized # text.s
    /\ \E i \in 1..Len(text.s) : text.s[i] = "NTILDE"

\* C16: the interval scheduler (access token present) runs its first cycle
\* at once, without the clock moving; sets the job's next run one interval
\* after each cycle; triggers the job when the clock reaches that time; and
\* stops only by an interrupt.
C16_IntervalMode ==
    [][(mode = "interval" /\ access_token) =>
        /\ (pc = "i_init" /\ ~interrupted')
              => (pc' = "fetch" /\ cycles' = 1 /\ now' = now)
        /\ (pc = "ret" /\ pc' \in {"i_loop", "i_sleep"})
              => next_run' = now + Interval
        /\ (cycles' > cycles /\ scheduled) => now = next_run
        /\ (/\ pc = "i_loop"
            /\ now >= next_run
            /\ cycles < MaxCycles
            /\ ~interrupted') => pc' = "fetch"
        /\ pc' = "done" => interrupted']_vars

\* the third cycle of the interval scheduler starts
C16_Witness ==
    /\ mode = "interval"
    /\ pc = "fetch"
    /\ cycles = 3
    /\ now >= 2 * Interval
    /\ now = next_run

\* C17: a cycle is triggered only from a position of the scheduler, never
\* from inside a cycle; in windowed mode the trigger computed when a cycle
\* has completed is the completion time plus the interval, it does not
\* change until the next cycle starts, and that cycle starts at or after it.
C17_NoOverlap ==
    [][/\ cycles' > cycles => pc \in {"i_init", "i_loop", "w_check"}
       /\ pc' = "fetch" => pc \in {"i_init", "i_loop", "w_new"}
       /\ mode = "windowed" =>
            /\ (pc = "ret" /\ pc' = "w_check")
                  => (next_run' = now + Interval /\ now' >= next_run')
            /\ pc \in {"w_check", "w_new"}
                  => (next_run' = next_run /\ now' = now)
            /\ pc' = "fetch" => now' >= next_run']_vars

\* a later cycle of the windowed scheduler starts after a cycle that took
\* time
C17_Witness ==
    /\ mode = "windowed"
    /\ pc = "fetch"
    /\ cycles >= 2
    /\ busy >= 1
    /\ now >= start_time + Interval + 1

\* C18: whenever the process stops after a collector was created, the
\* statistics have been reported.
C18_StatsReported == (pc = "done" /\ collector) => reported

\* C19: normalize_text returns ASCII characters only, and the empty string
\* for an empty or null argument.
C19_AsciiOnly ==
    ppc \in {"normalized", "twice"} =>
        /\ \A i \in 1..Len(normalized) : normalized[i] \in Ascii
        /\ (text.none \/ text.s = <<>>) => normalized = <<>>

\* a text with a character outside ASCII and a non-empty result
C19_Witness ==
    /\ ppc = "normalized"
    /\ ~text.none
    /\ \E i \in 1..Len(text.s) : text.s[i] \in {"EURO", "HALF"}
    /\ normalized # <<>>

\* a fetched payload without records: no 'data' key or an empty data array
NoRecordsPayload(d) ==
    \/ d.kind \in {"empty", "nokey"}
    \/ d.kind = "list" /\ d.entries = <<>>

\* C20: a cycle whose fetch succeeds with a payload without records raises
\* errors by exactly 1, leaves collections_made as it was and writes neither
\* the history nor a per-cycle CSV file.
C20_NoRecordsCycle ==
    (Returned /\ NoRecordsPayload(data))
        => /\ collection_stats.errors = errs0 + 1
           /\ collection_stats.collections_made = made0
           /\ main_csv = hist0
           /\ ~daily_written

\* an empty data array, after the snapshot was written, in a collector that
\* has counted a success and an error before
C20_Witness ==
    /\ Returned
    /\ data.kind = "list"
    /\ data.entries = <<>>
    /\ json_written
    /\ outcome = "no_records"
    /\ errs0 >= 1
    /\ made0 >= 1

\* C21: a cycle whose fetch, snapshot, extraction and two CSV writes
\* succeeded has appended its records, and nothing else but the header of a
\* new file, to the history, has raised collections_made by 1 and
\* total_files by 1, and has left errors as it was.
C21_SuccessfulCycle ==
    (Returned /\ outcome = "ok") =>
        /\ Len(df.rows) >= 1
        /\ \A i \in 1..Len(df.rows) : df.rows[i] = <<cycles, i>>
        /\ \/ main_csv = hist0 \o df.rows
           \/ hist0 = <<>> /\ main_csv = <<Header>> \o df.rows
        /\ collection_stats.collections_made = made0 + 1
        /\ collection_stats.total_files = files0 + 1
        /\ collection_stats.errors = errs0

\* a successful cycle of two records on a collector that has counted a
\* success, a snapshot and an error before, appending to a history
C21_Witness ==
    /\ Returned
    /\ outcome = "ok"
    /\ Len(df.rows) = 2
    /\ made0 >= 1
    /\ files0 >= 1
    /\ errs0 >= 1
    /\ Len(hist0) >= 2

\* C22: the record's longitude and latitude are those of
\* geometry.coordinates, replaced by the flat field only when the primary
\* value is 0 and the flat field is present; the warning is emitted exactly
\* when one of them is 0; and the record is in the batch either way.
C22_CoordinatesFlagged ==
    ppc = "extracted" =>
        LET lon == IF station.geometry.present
                   THEN station.geometry.lon ELSE 0
            lat == IF station.geometry.present
                   THEN station.geometry.lat ELSE 0
        IN  /\ record.longitude =
                  (IF lon = 0 /\ station.longitude # Absent
                   THEN station.longitude ELSE lon)
            /\ record.latitude =
                  (IF lat = 0 /\ station.latitude # Absent
                   THEN station.latitude ELSE lat)
            /\ warned = (record.longitude = 0 \/ record.latitude = 0)
            /\ batch = <<record>>

\* the longitude came from the flat field, the latitude stayed 0: the
\* station is flagged and its record is in the batch
C22_Witness ==
    /\ ppc = "extracted"
    /\ station.geometry.present
    /\ station.geometry.lon = 0
    /\ station.longitude = 1
    /\ record.longitude = 1
    /\ record.latitude = 0
    /\ warned
    /\ Len(batch) = 1

\* C23: a call of collect_data that has raised the errors counter has left
\* the history file as it was.
C23_ErrorKeepsHistory ==
    (Returned /\ collection_stats.errors > errs0) => main_csv = hist0

\* cycles on the running collector instance: every cycle of the interval
\* scheduler, the one cycle of the instance in the windowed scheduler
InstanceCycles ==
    IF mode = "interval" THEN cycles
    ELSE IF collector THEN 1 ELSE 0

\* C24: on one collector instance collections_made <= total_files <= the
\* number of its cycles; a cycle that has raised collections_made has raised
\* total_files and has not raised errors.
C24_CounterOrder ==
    /\ collection_stats.collections_made <= collection_stats.total_files
    /\ collection_stats.total_files <= InstanceCycles
    /\ collection_stats.collections_made > made0
          => /\ collection_stats.total_files > files0
             /\ collection_stats.errors = errs0

\* after three cycles on one instance: a success, a cycle that wrote the
\* snapshot and failed later, and a cycle that wrote nothing
C24_Witness ==
    /\ mode = "interval"
    /\ Returned
    /\ cycles = 3
    /\ collection_stats.collections_made = 1
    /\ collection_stats.total_files = 2
    /\ collection_stats.errors >= 2
    /\ made0 = 0

\* C25: the windowed scheduler stops: whatever the end time, the outcomes
\* of the cycles and the lengths of the cycles and sleeps, a run in which
\* the process keeps taking its steps reaches the end of the program.
C25_WindowedTerminates == <>(pc = "done")

\* the window ran to its end, uninterrupted, through a failed and a
\* successful cycle
C25_Witness ==
    /\ mode = "windowed"
    /\ pc = "done"
    /\ ~interrupted
    /\ stopped_at \in {"ret", "w_check"}
    /\ cycles >= 2
    /\ lateness >= 1
    /\ Len(main_csv) >= 2
====
